---- MODULE Spec2Model ----
(***************************************************************************)
(* Whack-a-mole game component (src/index.tsx, React function component    *)
(* App).                                                                   *)
(*                                                                         *)
(* React state hooks are modelled on two levels.  score, timeLeft,         *)
(* isActive, holeContents and gameOverReason are the values useState       *)
(* returned at the last render: what the screen shows and what the event   *)
(* handler and effect closures read.  `latest` is the hook state with      *)
(* every dispatched update applied in dispatch order: the value React      *)
(* hands to an updater function as prev.  A timer callback only dispatches *)
(* (it changes latest); the render React schedules for it is a later task  *)
(* (Render), and the passive effects of that render are flushed after the  *)
(* commit (FlushEffects).  A click is a discrete event: its updates are    *)
(* rendered and its effects flushed before the handler's task ends, so a   *)
(* click is one step; its synchronous render takes only the click's own    *)
(* updates and leaves the updates dispatched by timers pending.            *)
(* Timer callbacks and clicks are tasks of one event loop: each is atomic  *)
(* and they may run in any order.                                          *)
(*                                                                         *)
(* The updaters of one hook run in dispatch order, so `latest` is updated  *)
(* when a callback dispatches; the setTimeout inside the spawn updater is  *)
(* thereby placed at the pop tick, and the updater runs once per tick.     *)
(* React flushes the pending effects of a commit before it renders again:  *)
(* a click that arrives while effects are pending behaves as FlushEffects  *)
(* followed by the click, which is how the click actions are guarded.      *)
(* Of the audio side the model keeps whether an AudioContext was acquired  *)
(* (audioContextRef) and whether the music interval is set                 *)
(* (musicIntervalRef); the notes themselves and the unmount cleanup change *)
(* none of the state modelled here.                                        *)
(*                                                                         *)
(* Every timer carries the time left until it is due (timerDue, popDue,    *)
(* the due field of a hide timeout).  Spec takes no account of it: a timer *)
(* callback may run late, in any order with the others.  TimedSpec is the  *)
(* schedule on which every timer fires exactly when due and React's work   *)
(* takes no time.                                                          *)
(***************************************************************************)
EXTENDS Integers, Sequences, FiniteSets, Bags

\* Model bounds.  The source sets GAME_DURATION = 60 and GRID_SIZE = 9; the
\* code uses them only as the start of the countdown and the length of the
\* grid, and the model runs a shorter countdown on a smaller grid.
\* MaxSpawns caps the spawns of one session.
GAME_DURATION == 2
GRID_SIZE == 2
MaxSpawns == 2

\* Timer delays in milliseconds.  TICK_DELAY is the delay of the game
\* timer's setTimeout.
POP_INTERVAL == 1000

\* Variant: an item stays up longer than the spawn interval.
VISIBLE_DURATION_Long == POP_INTERVAL + 200

VISIBLE_DURATION == 800
TICK_DELAY == 1000

DueTimes == 0 .. VISIBLE_DURATION

Holes == 0 .. (GRID_SIZE - 1)
Kinds == {"mole", "bomb"}
HoleContent == {"empty"} \cup Kinds
EmptyGrid == [i \in Holes |-> "empty"]

\* A pending hide timeout: the index and content its closure captured and
\* the time left until it is due.
\* stale is a history flag: the content this timeout's spawn placed has
\* since been removed from the hole.
Timeout == [index : Holes, content : Kinds, stale : BOOLEAN, due : DueTimes]

\* moleTimeouts.current is a bag of pending timeouts.
NoTimeouts == EmptyBag

VARIABLES score, timeLeft, isActive, holeContents, gameOverReason,
          latest, timerId, popInterval, moleTimeouts,
          timerDue, popDue,
          effectDeps, effectsPending,
          audioContextRef, musicIntervalRef,
          spawned, ticks, whacked, molesWhacked, bombsWhacked, last

rendered == <<score, timeLeft, isActive, holeContents, gameOverReason>>
vars == <<score, timeLeft, isActive, holeContents, gameOverReason,
          latest, timerId, popInterval, moleTimeouts, timerDue, popDue,
          effectDeps, effectsPending, audioContextRef, musicIntervalRef,
          spawned, ticks, whacked, molesWhacked, bombsWhacked, last>>

\* The game state: everything but the audio refs and the history.
game == <<score, timeLeft, isActive, holeContents, gameOverReason,
          latest, timerId, popInterval, moleTimeouts, effectDeps, effectsPending>>
audio == <<audioContextRef, musicIntervalRef>>
dues == <<timerDue, popDue>>
hits == <<whacked, molesWhacked, bombsWhacked>>

Snapshot == [timeLeft |-> timeLeft, isActive |-> isActive,
             holeContents |-> holeContents, gameOverReason |-> gameOverReason]
Deps(a, t, g) == [isActive |-> a, timeLeft |-> t, gameOverReason |-> g]

\* History of the last callback that ran: which one, on which hole, the
\* content it acted on, whether a hide it ran was stale, for a start the
\* end cause and score of the session before it, for a whack the outcome of
\* its sound cue.
Event(o, i, c, s) == [op |-> o, index |-> i, content |-> c, stale |-> s,
                      priorReason |-> "null", priorScore |-> 0, cue |-> "none"]
NoEvent == Event("none", -1, "empty", FALSE)

----------------------------------------------------------------------------
\* Pure parts of the updaters.

RECURSIVE EmptyFrom(_, _)
EmptyFrom(currentHoles, i) ==
    IF i >= GRID_SIZE THEN << >>
    ELSE IF currentHoles[i] = "empty"
         THEN <<i>> \o EmptyFrom(currentHoles, i + 1)
         ELSE EmptyFrom(currentHoles, i + 1)

emptyHolesIndexes(currentHoles) == EmptyFrom(currentHoles, 0)


\* Variant: the random index is taken over all holes, empty or not.
SpawnIndex_AnyHole(currentHoles, k) == k

\* k is Math.floor(Math.random() * emptyHolesIndexes.length).
SpawnIndex(currentHoles, k) == emptyHolesIndexes(currentHoles)[k + 1]

SpawnContent(isBomb) == IF isBomb THEN "bomb" ELSE "mole"

SpawnUpdater(currentHoles, k, isBomb) ==
    IF Len(emptyHolesIndexes(currentHoles)) = 0 THEN currentHoles
    ELSE [currentHoles EXCEPT ![SpawnIndex(currentHoles, k)] = SpawnContent(isBomb)]

HideUpdater(prev, randomIndex, content) ==
    IF prev[randomIndex] = content
    THEN [prev EXCEPT ![randomIndex] = "empty"]
    ELSE prev

WhackUpdater(prev, index) == [prev EXCEPT ![index] = "empty"]


\* Variant: the guard forgets isActive.
WhackGuard_IgnoresActive(holes, active, index) == holes[index] # "empty"

WhackGuard(holes, active, index) == ~(holes[index] = "empty" \/ ~active)


\* Variant: a bomb costs nothing.
ScoreDelta_BombFree(content) == IF content = "mole" THEN 10 ELSE 0

ScoreDelta(content) ==
    IF content = "mole" THEN 10 ELSE IF content = "bomb" THEN -10 ELSE 0

\* Variant: the countdown loses two per tick.
TickUpdater_Double(prevTime) == prevTime - 2

TickUpdater(prevTime) == prevTime - 1

\* Variant: whacking a bomb ends the game with the 'bomb' end cause.
WhackDispatch_BombEnds(l, index, content) ==
    IF content = "bomb"
    THEN [l EXCEPT !.holeContents = WhackUpdater(@, index),
                   !.isActive = FALSE, !.gameOverReason = "bomb"]
    ELSE [l EXCEPT !.holeContents = WhackUpdater(@, index)]

\* The hook state after the updates whackItem dispatches besides setScore:
\* only setHoleContents.
WhackDispatch(l, index, content) ==
    [l EXCEPT !.holeContents = WhackUpdater(@, index)]


\* Variant: the updater runs twice and schedules two timeouts.
ScheduleHide_Twice(tos, randomIndex, content) ==
    LET hideTimeout == [index |-> randomIndex, content |-> content,
                        stale |-> FALSE, due |-> VISIBLE_DURATION]
    IN tos (+) SetToBag({hideTimeout}) (+) SetToBag({hideTimeout})

\* setTimeout(..., VISIBLE_DURATION) and moleTimeouts.current.push(hideTimeout).
ScheduleHide(tos, randomIndex, content) ==
    LET hideTimeout == [index |-> randomIndex, content |-> content,
                        stale |-> FALSE, due |-> VISIBLE_DURATION]
    IN tos (+) SetToBag({hideTimeout})

\* History bookkeeping: the content of the holes in cs was removed, every
\* timeout still pending on them now belongs to removed content.
MarkStale(tos, cs) ==
    BagOfAll(LAMBDA tm : IF tm.index \in cs THEN [tm EXCEPT !.stale = TRUE] ELSE tm,
             tos)

Cleared(before, after) == {i \in Holes : before[i] # "empty" /\ after[i] = "empty"}

PendingCount(tos) == BagCardinality(tos)

----------------------------------------------------------------------------
\* Audio.  ctx is audioContextRef.current: "null" or "ctx".

\* Variant: the sound functions lose their guard and dereference a null
\* context, which throws out of the click handler.
PlaySound_NoGuard(ctx, running) == IF ctx = "null" THEN "throws" ELSE "played"

\* playWhackSound and playBombSound: they return at once unless a context
\* exists and its state is 'running'.
PlaySound(ctx, running) ==
    IF ctx = "null" \/ ~running THEN "skipped" ELSE "played"

\* The cue whackItem triggers for the content it read.
WhackCue(ctx, running, content) ==
    IF content \in Kinds THEN PlaySound(ctx, running) ELSE "none"

\* Variant: stopMusic leaves the interval running.
StopMusic_Keeps(music) == music

\* stopMusic: clearInterval and musicIntervalRef.current = null.
StopMusic(music) == FALSE

\* playMusic.  created tells whether new AudioContext() succeeds when no
\* context exists yet; on failure the function returns without an interval.
PlayMusic(ctx, music, created) ==
    IF ctx = "null" /\ ~created
    THEN [ctx |-> "null", music |-> music]
    ELSE [ctx |-> "ctx", music |-> TRUE]

\* The music effect: on a change of isActive its cleanup stops the music,
\* then it plays or stops by the new isActive.
MusicAfterEffects(d, a, ctx, music, created) ==
    IF d.isActive # a
    THEN IF a THEN PlayMusic(ctx, StopMusic(music), created)
         ELSE [ctx |-> ctx, music |-> StopMusic(StopMusic(music))]
    ELSE [ctx |-> ctx, music |-> music]

----------------------------------------------------------------------------
\* Effects.  d is the dependency record of the previous run, a/t/g the
\* rendered isActive/timeLeft/gameOverReason the effects now close over.

TimerDepsChanged(d, a, t, g) == d # Deps(a, t, g)
PopDepsChanged(d, a) == d.isActive # a


\* Variant: the countdown stops one tick late.
TimeUp_Late(a, t) == a /\ t < 0

\* Expiry branch of the game timer effect.
TimeUp(a, t) == a /\ t <= 0
Expires(d, a, t, g) == TimerDepsChanged(d, a, t, g) /\ TimeUp(a, t)

\* clearTimeout(timerId) in the cleanup, setTimeout in the body.
TimerAfterEffects(d, a, t, g, cur) ==
    IF TimerDepsChanged(d, a, t, g) THEN (a /\ ~TimeUp(a, t)) ELSE cur

TimerDueAfterEffects(d, a, t, g, cur) ==
    IF TimerDepsChanged(d, a, t, g)
    THEN (IF a /\ ~TimeUp(a, t) THEN TICK_DELAY ELSE 0)
    ELSE cur

\* clearInterval in the cleanup, setInterval in the body.
IntervalAfterEffects(d, a, cur) ==
    IF PopDepsChanged(d, a) THEN a ELSE cur

IntervalDueAfterEffects(d, a, cur) ==
    IF PopDepsChanged(d, a) THEN (IF a THEN POP_INTERVAL ELSE 0) ELSE cur

\* moleTimeouts.current.forEach(clearTimeout) in the expiry branch and in
\* the cleanup of the popping effect.
TimeoutsAfterEffects(d, a, t, g, cur) ==
    IF Expires(d, a, t, g) \/ (PopDepsChanged(d, a) /\ d.isActive)
    THEN NoTimeouts ELSE cur

\* Variant: the expiry branch never records the end cause.
LatestAfterEffects_NoReason(d, a, t, g, cur) ==
    IF d # Deps(a, t, g) /\ a /\ t <= 0
    THEN [cur EXCEPT !.isActive = FALSE, !.holeContents = EmptyGrid]
    ELSE cur

\* setIsActive(false); setHoleContents(all empty); setGameOverReason('time')
LatestAfterEffects(d, a, t, g, cur) ==
    IF Expires(d, a, t, g)
    THEN [cur EXCEPT !.isActive = FALSE,
                     !.holeContents = EmptyGrid,
                     !.gameOverReason = IF g = "null" THEN "time" ELSE @]
    ELSE cur

----------------------------------------------------------------------------
Init ==
    /\ score = 0
    /\ timeLeft = GAME_DURATION
    /\ isActive = FALSE
    /\ holeContents = EmptyGrid
    /\ gameOverReason = "null"
    /\ latest = [timeLeft |-> GAME_DURATION, isActive |-> FALSE,
                 holeContents |-> EmptyGrid, gameOverReason |-> "null"]
    /\ timerId = FALSE
    /\ popInterval = FALSE
    /\ moleTimeouts = NoTimeouts
    /\ timerDue = 0
    /\ popDue = 0
    /\ effectDeps = Deps(FALSE, GAME_DURATION, "null")
    /\ effectsPending = FALSE
    /\ audioContextRef = "null"
    /\ musicIntervalRef = FALSE
    /\ spawned = 0
    /\ ticks = 0
    /\ whacked = FALSE
    /\ molesWhacked = 0
    /\ bombsWhacked = 0
    /\ last = NoEvent


\* Variant: startGame forgets setScore(0).
StartState_KeepsScore ==
    [score |-> score, timeLeft |-> GAME_DURATION, isActive |-> TRUE,
     gameOverReason |-> "null", holeContents |-> EmptyGrid]

\* The five values startGame sets.
StartState ==
    [score |-> 0, timeLeft |-> GAME_DURATION, isActive |-> TRUE,
     gameOverReason |-> "null", holeContents |-> EmptyGrid]

\* Click on the start button (disabled while isActive is rendered true).
\* The click's render commits the five values and its effects run with them.
StartGame ==
    /\ ~isActive
    /\ ~effectsPending
    /\ score' = StartState.score
    /\ timeLeft' = StartState.timeLeft
    /\ isActive' = StartState.isActive
    /\ gameOverReason' = StartState.gameOverReason
    /\ holeContents' = StartState.holeContents
    /\ LET a == StartState.isActive
           t == StartState.timeLeft
           g == StartState.gameOverReason
           l == [timeLeft |-> t, isActive |-> a,
                 holeContents |-> StartState.holeContents, gameOverReason |-> g]
           tos == MarkStale(moleTimeouts, Cleared(latest.holeContents, l.holeContents))
       IN /\ latest' = LatestAfterEffects(effectDeps, a, t, g, l)
          /\ moleTimeouts' = TimeoutsAfterEffects(effectDeps, a, t, g, tos)
          /\ timerId' = TimerAfterEffects(effectDeps, a, t, g, timerId)
          /\ popInterval' = IntervalAfterEffects(effectDeps, a, popInterval)
          /\ timerDue' = TimerDueAfterEffects(effectDeps, a, t, g, timerDue)
          /\ popDue' = IntervalDueAfterEffects(effectDeps, a, popDue)
          /\ effectDeps' = Deps(a, t, g)
          /\ \E created \in BOOLEAN :
                LET m == MusicAfterEffects(effectDeps, a, audioContextRef,
                                           musicIntervalRef, created)
                IN /\ audioContextRef' = m.ctx
                   /\ musicIntervalRef' = m.music
    /\ effectsPending' = FALSE
    /\ spawned' = 0
    /\ ticks' = 0
    /\ whacked' = FALSE
    /\ molesWhacked' = 0
    /\ bombsWhacked' = 0
    /\ last' = [Event("start", -1, "empty", FALSE)
                    EXCEPT !.priorReason = gameOverReason, !.priorScore = score]

\* What whackItem leaves of score, the rendered grid and the hook state.
\* An exception out of a sound cue would end the handler before setScore.
WhackResult(ctx, running, index) ==
    LET content == holeContents[index]
    IN IF WhackGuard(holeContents, isActive, index)
          /\ WhackCue(ctx, running, content) # "throws"
       THEN [score |-> score + ScoreDelta(content),
             holeContents |-> WhackUpdater(holeContents, index),
             latest |-> WhackDispatch(latest, index, content)]
       ELSE [score |-> score, holeContents |-> holeContents, latest |-> latest]

\* The item the whack's updater removed from the hook state l, "empty" if
\* it removed none.
WhackCleared(l, after, index) ==
    IF after.holeContents[index] # l.holeContents[index]
    THEN l.holeContents[index]
    ELSE "empty"

\* Click on hole index.  running: the context's state is 'running'.
WhackItem(index) ==
    /\ ~effectsPending
    /\ \E running \in BOOLEAN :
         LET content == holeContents[index]
             r == WhackResult(audioContextRef, running, index)
             hit == WhackGuard(holeContents, isActive, index)
         IN /\ score' = r.score
            /\ holeContents' = r.holeContents
            /\ latest' = r.latest
            /\ moleTimeouts' = MarkStale(moleTimeouts,
                                         Cleared(latest.holeContents,
                                                 r.latest.holeContents))
            /\ whacked' = (whacked \/ r.score # score)
            /\ molesWhacked' = molesWhacked +
                    (IF WhackCleared(latest, r.latest, index) = "mole" THEN 1 ELSE 0)
            /\ bombsWhacked' = bombsWhacked +
                    (IF WhackCleared(latest, r.latest, index) = "bomb" THEN 1 ELSE 0)
            /\ last' = [Event("whack", index, IF hit THEN content ELSE "empty", FALSE)
                          EXCEPT !.cue = IF hit
                                         THEN WhackCue(audioContextRef, running, content)
                                         ELSE "none"]
    /\ UNCHANGED <<timeLeft, isActive, gameOverReason, timerId, popInterval,
                   dues, effectDeps, effectsPending, audio, spawned, ticks>>

\* The one-second timeout of the game timer effect fires.
TimerFire ==
    /\ timerId
    /\ timerId' = FALSE
    /\ timerDue' = 0
    /\ latest' = [latest EXCEPT !.timeLeft = TickUpdater(@)]
    /\ ticks' = ticks + 1
    /\ last' = Event("tick", -1, "empty", FALSE)
    /\ UNCHANGED <<rendered, popInterval, popDue, moleTimeouts, effectDeps,
                   effectsPending, audio, spawned, hits>>

\* The popInterval callback fires; the interval stays armed.  cap bounds
\* the spawns of a session.
Pop(cap) ==
    /\ popInterval
    /\ popDue' = POP_INTERVAL
    /\ LET currentHoles == latest.holeContents
           n == Len(emptyHolesIndexes(currentHoles))
       IN IF n = 0
          THEN /\ UNCHANGED <<latest, moleTimeouts, spawned>>
               /\ last' = Event("pop", -1, "empty", FALSE)
          ELSE \E k \in 0 .. (n - 1), isBomb \in BOOLEAN :
                 /\ spawned < cap
                 /\ LET randomIndex == SpawnIndex(currentHoles, k)
                        content == SpawnContent(isBomb)
                    IN /\ latest' = [latest EXCEPT !.holeContents =
                                         SpawnUpdater(currentHoles, k, isBomb)]
                       /\ moleTimeouts' = ScheduleHide(moleTimeouts, randomIndex, content)
                       /\ spawned' = spawned + 1
                       /\ last' = Event("pop", randomIndex, content, FALSE)
    /\ UNCHANGED <<rendered, timerId, timerDue, popInterval, effectDeps,
                   effectsPending, audio, ticks, hits>>

PopTick == Pop(MaxSpawns)

\* A hide timeout fires.
HideFire(tm) ==
    /\ BagIn(tm, moleTimeouts)
    /\ LET prev == latest.holeContents
           updatedContents == HideUpdater(prev, tm.index, tm.content)
       IN /\ latest' = [latest EXCEPT !.holeContents = updatedContents]
          /\ moleTimeouts' = MarkStale(moleTimeouts (-) SetToBag({tm}),
                                       Cleared(prev, updatedContents))
          /\ last' = Event("hide", tm.index,
                           IF updatedContents # prev THEN tm.content ELSE "empty",
                           tm.stale)
    /\ UNCHANGED <<rendered, timerId, popInterval, dues, effectDeps,
                   effectsPending, audio, spawned, ticks, hits>>

\* React renders the updates dispatched by timer callbacks and effects.
Render ==
    /\ ~effectsPending
    /\ latest # Snapshot
    /\ timeLeft' = latest.timeLeft
    /\ isActive' = latest.isActive
    /\ holeContents' = latest.holeContents
    /\ gameOverReason' = latest.gameOverReason
    /\ effectsPending' = TimerDepsChanged(effectDeps, latest.isActive,
                                          latest.timeLeft, latest.gameOverReason)
    /\ last' = Event("render", -1, "empty", FALSE)
    /\ UNCHANGED <<score, latest, timerId, popInterval, moleTimeouts, dues,
                   effectDeps, audio, spawned, ticks, hits>>

\* The passive effects of the last commit run: cleanups, then bodies.
FlushEffects ==
    /\ effectsPending
    /\ timerId' = TimerAfterEffects(effectDeps, isActive, timeLeft, gameOverReason, timerId)
    /\ popInterval' = IntervalAfterEffects(effectDeps, isActive, popInterval)
    /\ timerDue' = TimerDueAfterEffects(effectDeps, isActive, timeLeft,
                                        gameOverReason, timerDue)
    /\ popDue' = IntervalDueAfterEffects(effectDeps, isActive, popDue)
    /\ moleTimeouts' = TimeoutsAfterEffects(effectDeps, isActive, timeLeft,
                                            gameOverReason, moleTimeouts)
    /\ latest' = LatestAfterEffects(effectDeps, isActive, timeLeft, gameOverReason, latest)
    /\ effectDeps' = Deps(isActive, timeLeft, gameOverReason)
    /\ effectsPending' = FALSE
    /\ \E created \in BOOLEAN :
          LET m == MusicAfterEffects(effectDeps, isActive, audioContextRef,
                                     musicIntervalRef, created)
          IN /\ audioContextRef' = m.ctx
             /\ musicIntervalRef' = m.music
    /\ last' = Event("effects", -1, "empty", FALSE)
    /\ UNCHANGED <<rendered, spawned, ticks, hits>>

Next ==
    \/ StartGame
    \/ \E index \in Holes : WhackItem(index)
    \/ TimerFire
    \/ PopTick
    \/ \E tm \in BagToSet(moleTimeouts) : HideFire(tm)
    \/ Render
    \/ FlushEffects

Spec == Init /\ [][Next]_vars

----------------------------------------------------------------------------
\* The schedule on which timers fire exactly when due.

Min(S) == CHOOSE x \in S : \A y \in S : x <= y

\* The times left of all armed timers.
ArmedDues ==
    (IF timerId THEN {timerDue} ELSE {})
        \cup (IF popInterval THEN {popDue} ELSE {})
        \cup {tm.due : tm \in BagToSet(moleTimeouts)}

\* Time passes until the next timer is due.  React's render and effects
\* are done first: they take no time.
Advance ==
    /\ ~effectsPending
    /\ latest = Snapshot
    /\ ArmedDues # {}
    /\ Min(ArmedDues) > 0
    /\ LET dt == Min(ArmedDues)
       IN /\ timerDue' = IF timerId THEN timerDue - dt ELSE timerDue
          /\ popDue' = IF popInterval THEN popDue - dt ELSE popDue
          /\ moleTimeouts' = BagOfAll(LAMBDA tm : [tm EXCEPT !.due = @ - dt],
                                      moleTimeouts)
    /\ last' = Event("advance", -1, "empty", FALSE)
    /\ UNCHANGED <<rendered, latest, timerId, popInterval, effectDeps,
                   effectsPending, audio, spawned, ticks, hits>>

TimedTimerFire == timerDue = 0 /\ TimerFire

\* On this schedule the timers themselves bound the spawns of a session;
\* the cap lies above GAME_DURATION.
TimedPopTick == popDue = 0 /\ Pop(GAME_DURATION + 2)

TimedHideFire(tm) == tm.due = 0 /\ HideFire(tm)

TimedNext ==
    \/ StartGame
    \/ \E index \in Holes : WhackItem(index)
    \/ TimedTimerFire
    \/ TimedPopTick
    \/ \E tm \in BagToSet(moleTimeouts) : TimedHideFire(tm)
    \/ Render
    \/ FlushEffects
    \/ Advance

TimedSpec == Init /\ [][TimedNext]_vars

\* Timers the browser is bound to fire, and the render and effect tasks
\* React is bound to run once it has scheduled them.
Fairness == WF_vars(TimerFire) /\ WF_vars(Render) /\ WF_vars(FlushEffects)
FairSpec == Init /\ [][Next]_vars /\ Fairness

TypeOK ==
    /\ score \in Int
    /\ timeLeft \in 0 .. GAME_DURATION
    /\ isActive \in BOOLEAN
    /\ holeContents \in [Holes -> HoleContent]
    /\ gameOverReason \in {"null", "time", "bomb"}
    /\ latest.timeLeft \in 0 .. GAME_DURATION
    /\ latest.holeContents \in [Holes -> HoleContent]
    /\ IsABag(moleTimeouts)
    /\ BagToSet(moleTimeouts) \subseteq Timeout

Ended == ~isActive /\ gameOverReason = "time"

----------------------------------------------------------------------------
\* C1: a hide timeout that fires after the content its spawn placed has
\* been removed (stale) never clears the hole, whatever the hole holds now,
\* content of the same kind included.
C1_StaleHideClearsNothing ==
    (last.op = "hide" /\ last.stale) => last.content = "empty"

C4_StartResets ==
    [][StartGame =>
        /\ score' = 0 /\ timeLeft' = GAME_DURATION /\ isActive'
        /\ gameOverReason' = "null" /\ holeContents' = EmptyGrid
        /\ latest' = [timeLeft |-> GAME_DURATION, isActive |-> TRUE,
                      holeContents |-> EmptyGrid, gameOverReason |-> "null"]]_vars

\* A game was restarted after one that ended on time with a nonzero score.
C4_Witness ==
    /\ last.op = "start" /\ last.priorReason = "time" /\ last.priorScore # 0
    /\ score = 0 /\ timeLeft = GAME_DURATION /\ isActive

\* C5: once the game has ended on time the rendered grid is all empty and
\* stays so (no spawn shows) until the next start.
C5_EndedGridEmpty == Ended => holeContents = EmptyGrid

\* C6: while the game is rendered inactive, no step other than a start
\* changes score, timeLeft, the grid or the end cause, rendered or pending.
C6_NoChangeAfterEnd ==
    [][(~isActive /\ ~isActive') =>
        UNCHANGED <<score, timeLeft, holeContents, gameOverReason, latest>>]_vars

\* C7: with the timer, the render and the effects firing fairly, every
\* started game ends on time; it has then taken exactly GAME_DURATION
\* decrements; and a game without a scoring whack has score 0.
C7_Terminates ==
    /\ isActive ~> Ended
    /\ [](Ended => ticks = GAME_DURATION)
    /\ [](~whacked => score = 0)

\* A game with spawns and no whack ran to its end.
C7_Witness ==
    Ended /\ ticks = GAME_DURATION /\ ~whacked /\ spawned > 0 /\ score = 0

\* C8: every hole holds empty, mole or bomb, and each update of the grid
\* state takes a hole from empty to mole or bomb, or from mole or bomb to
\* empty, never from mole to bomb or bomb to mole.
C8_HoleTransitions ==
    /\ [](holeContents \in [Holes -> HoleContent]
          /\ latest.holeContents \in [Holes -> HoleContent])
    /\ [][\A i \in Holes :
            latest'.holeContents[i] # latest.holeContents[i] =>
                (latest.holeContents[i] = "empty"
                    \/ latest'.holeContents[i] = "empty")]_vars

\* A hole that held a mole, was whacked, and now holds a bomb.
C8_Witness ==
    /\ last.op = "pop" /\ last.content = "bomb"
    /\ latest.holeContents[last.index] = "bomb"
    /\ BagIn([index |-> last.index, content |-> "mole", stale |-> TRUE,
              due |-> VISIBLE_DURATION], moleTimeouts)

\* C9: a pop tick changes at most one hole, an empty one, to mole or bomb
\* and schedules exactly one hide timeout for that hole and content; with no
\* empty hole it changes no hole and schedules nothing; no other step turns
\* an empty hole non-empty.
C9_SpawnOnlyIntoEmpty ==
    [][LET old == latest.holeContents
           new == latest'.holeContents
           changed == {i \in Holes : new[i] # old[i]}
       IN IF last'.op = "pop" /\ PopTick
          THEN /\ Cardinality(changed) <= 1
               /\ \A i \in changed :
                    /\ old[i] = "empty" /\ new[i] \in Kinds
                    /\ moleTimeouts' = moleTimeouts (+)
                          SetToBag({[index |-> i, content |-> new[i],
                                     stale |-> FALSE, due |-> VISIBLE_DURATION]})
               /\ changed = {} => moleTimeouts' = moleTimeouts
               /\ (\A i \in Holes : old[i] # "empty") => changed = {}
          ELSE \A i \in Holes : old[i] = "empty" => new[i] = "empty"]_vars

\* A pop tick found the grid full and did nothing.
C9_WitnessFull ==
    /\ last.op = "pop" /\ last.index = -1
    /\ \A i \in Holes : latest.holeContents[i] # "empty"
    /\ PendingCount(moleTimeouts) = GRID_SIZE

\* C10: whenever a whack changes the score, the hole holds in the latest
\* grid state, when the whack is applied, the kind the change is for.
C10_WhackAgainstLatest ==
    [][\A i \in Holes :
        (WhackItem(i) /\ score' # score) =>
            /\ score' = score + 10 => latest.holeContents[i] = "mole"
            /\ score' = score - 10 => latest.holeContents[i] = "bomb"]_vars

PendingOn(tos, i) ==
    PendingCount([tm \in {x \in BagToSet(tos) : x.index = i} |-> tos[tm]])

\* C11: at most one hide timeout is pending for each hole, also after a
\* whack has emptied a hole whose timeout has not fired and the hole is
\* spawned into again.
C11_OnePendingPerHole == \A i \in Holes : PendingOn(moleTimeouts, i) <= 1

\* C12: timeLeft is always within 0 .. GAME_DURATION, rendered and pending;
\* it changes only by a timer callback, which runs only while the game is
\* active with timeLeft > 0 and takes exactly 1, and by a start, which sets
\* it to GAME_DURATION; a render only shows the pending value.
C12_TimeLeftRange ==
    /\ [](timeLeft \in 0 .. GAME_DURATION /\ latest.timeLeft \in 0 .. GAME_DURATION)
    /\ [][/\ latest'.timeLeft # latest.timeLeft =>
                \/ /\ TimerFire
                   /\ latest.isActive /\ isActive /\ latest.timeLeft > 0
                   /\ latest'.timeLeft = latest.timeLeft - 1
                \/ StartGame /\ latest'.timeLeft = GAME_DURATION
          /\ timeLeft' # timeLeft =>
                \/ Render /\ timeLeft' = latest.timeLeft
                \/ StartGame /\ timeLeft' = GAME_DURATION]_vars

\* The last decrement of a countdown was dispatched.
C12_Witness == last.op = "tick" /\ latest.timeLeft = 0 /\ timeLeft = 1

\* C13: a whack never changes isActive or the end cause, and the end cause
\* is never anything but none or time.
C13_BombNeverEnds ==
    /\ [](gameOverReason \in {"null", "time"}
          /\ latest.gameOverReason \in {"null", "time"})
    /\ [][\A i \in Holes : WhackItem(i) =>
            /\ isActive' = isActive /\ gameOverReason' = gameOverReason
            /\ latest'.isActive = latest.isActive
            /\ latest'.gameOverReason = latest.gameOverReason]_vars

\* A bomb was whacked and the game goes on.
C13_Witness ==
    /\ last.op = "whack" /\ last.content = "bomb"
    /\ isActive /\ latest.isActive /\ gameOverReason = "null" /\ timerId

\* C16: when a hide timeout and a whack meet on one hole, the hole ends
\* empty in either order; if the hide was applied first, the whack that
\* follows is a no-op and the score does not change.
C16_HideThenWhackNoOp ==
    [][\A i \in Holes :
        (WhackItem(i) /\ latest.holeContents[i] = "empty") =>
            /\ score' = score
            /\ latest'.holeContents[i] = "empty"]_vars

SessionState ==
    IF isActive /\ gameOverReason = "null" THEN "Running"
    ELSE IF ~isActive /\ gameOverReason = "null" THEN "Idle"
    ELSE IF ~isActive /\ gameOverReason = "time" /\ timeLeft = 0 THEN "Ended"
    ELSE "none"

\* C17: the rendered session is always Idle, Running or Ended; it changes
\* only Idle -> Running and Ended -> Running by a start, and Running ->
\* Ended by the render of the expiry; a start needs a session not Running.
C17_SessionStates ==
    /\ [](SessionState \in {"Idle", "Running", "Ended"})
    /\ [][/\ StartGame => SessionState # "Running" /\ SessionState' = "Running"
          /\ SessionState' # SessionState =>
                \/ StartGame /\ SessionState \in {"Idle", "Ended"}
                \/ /\ SessionState = "Running" /\ SessionState' = "Ended"
                   /\ Render /\ latest.timeLeft = 0]_vars

\* The countdown ran out and the session was rendered Ended.
C17_Witness ==
    /\ last.op = "render" /\ SessionState = "Ended"
    /\ ticks = GAME_DURATION /\ effectsPending

\* C18: whenever the game is rendered inactive and nothing is pending (no
\* effect to flush, no update to render), every hole is empty and no hide
\* timeout is pending.
C18_InactiveGridEmpty ==
    (~isActive /\ ~effectsPending /\ latest = Snapshot) =>
        (holeContents = EmptyGrid /\ PendingCount(moleTimeouts) = 0)

\* C14 as stated: once the effects of a render have run, the music interval
\* is set if and only if the game is rendered active.
C14_MusicIffRunning == ~effectsPending => (musicIntervalRef <=> isActive)

\* C14 as amended: once the effects of a render have run, the music interval
\* is set if and only if the game is rendered active and an audio context
\* was acquired; it is set by the effects of every start that has a context
\* and cleared by the effects of every end.
C14_MusicIffRunningWithContext ==
    /\ [](~effectsPending =>
            (musicIntervalRef <=> (isActive /\ audioContextRef = "ctx")))
    /\ [][(StartGame /\ audioContextRef' = "ctx") => musicIntervalRef']_vars
    /\ [][(FlushEffects /\ ~isActive) => ~musicIntervalRef']_vars

\* A game with music ended and the music was stopped.
C14_Witness ==
    /\ Ended /\ ~effectsPending /\ last.op = "effects"
    /\ audioContextRef = "ctx" /\ ~musicIntervalRef

\* C15: the game state a click leaves does not depend on the audio: what
\* whackItem does with the context it has is what it does with no context,
\* whether or not the context is running, and a start arms the countdown
\* and the pop interval whether or not a context could be acquired.
C15_AudioNeverInfluencesGame ==
    /\ [](\A i \in Holes : \A running \in BOOLEAN :
            WhackResult(audioContextRef, running, i) = WhackResult("null", FALSE, i))
    /\ [][\A i \in Holes : WhackItem(i) =>
            <<score', holeContents', latest'>> =
                <<WhackResult("null", FALSE, i).score,
                  WhackResult("null", FALSE, i).holeContents,
                  WhackResult("null", FALSE, i).latest>>]_vars
    /\ [][StartGame => (isActive' /\ timerId' /\ popInterval')]_vars

\* A mole was whacked for 10 points in a game that runs without audio.
C15_Witness ==
    /\ last.op = "whack" /\ last.content = "mole" /\ last.cue = "skipped"
    /\ audioContextRef = "null" /\ ~musicIntervalRef
    /\ isActive /\ score = 10

\* C19: in every state the score is 10 times the number of moles that a
\* whack removed from the grid minus 10 times the number of bombs that a
\* whack removed since the start of the session; the items that changed
\* the score are at most the session's spawns, so the score is a multiple
\* of 10 and its absolute value at most 10 times the spawns.
C19_ScoreAccounting ==
    /\ score = 10 * molesWhacked - 10 * bombsWhacked
    /\ molesWhacked + bombsWhacked <= spawned
    /\ score % 10 = 0
    /\ score <= 10 * spawned
    /\ -score <= 10 * spawned

NonEmpty(hc) == {i \in Holes : hc[i] # "empty"}

\* C20: when every timer fires exactly when due, at most one hole is
\* non-empty at any moment, a spawn tick always finds an empty hole, and
\* no hide timeout is still pending when a spawn tick fires.
C20_OneItemAtATime ==
    /\ [](/\ Cardinality(NonEmpty(latest.holeContents)) <= 1
          /\ Cardinality(NonEmpty(holeContents)) <= 1)
    /\ [][TimedPopTick =>
            /\ emptyHolesIndexes(latest.holeContents) # <<>>
            /\ PendingCount(moleTimeouts) = 0
            /\ last'.index \in Holes]_vars

\* The second spawn of a session: the first item's hide timeout has fired,
\* the new item is the only one on the grid.
C20_Witness ==
    /\ last.op = "pop" /\ last.index \in Holes
    /\ spawned = 2
    /\ PendingCount(moleTimeouts) = 1
    /\ Cardinality(NonEmpty(latest.holeContents)) = 1
====
